---- MODULE Spec2Model ----
(***************************************************************************)
(* State persistence of toloka streaming pipelines: the storage backends   *)
(* JSONLocalStorage and S3Storage of src/streaming/storage.py, their key   *)
(* digest, their envelopes and the external locker they delegate to.       *)
(***************************************************************************)
EXTENDS Integers, Sequences, FiniteSets, TLC

(***************************************************************************)
(* Bounds of the model.                                                    *)
(***************************************************************************)
\* stored values are the integers 0..MaxVal, None, and one unpicklable value
MaxVal == 1
\* the callers (pipelines) that share the directory, the bucket and the lockers
NumProcs == 2

Procs == 1..NumProcs
Keys == {"k1", "k2"}
Classes == {"JSONLocalStorage", "S3Storage"}

\* classes a caller derives from the two backends: they run the backend's
\* methods under their own self.__class__.__name__
DerivedClasses == {"PipelineLocalStorage", "PipelineS3Storage"}
Backend(cls) ==
    IF cls \in {"S3Storage", "PipelineS3Storage"} THEN "S3Storage"
    ELSE "JSONLocalStorage"

\* Python's None, and a value pickle refuses (a lambda, an open socket)
PyNone == -1
Unpicklable == -2
\* "no value": the ghost marker of a missing prior envelope
NoVal == Unpicklable - 1
Values == {PyNone} \cup (0..MaxVal)
SaveArgs == Values \cup {Unpicklable}

(***************************************************************************)
(* util.stored: the codec and the digest (base64 over bytes).              *)
(***************************************************************************)
\* one byte of padding is the sextet 64 ('=')
Pad == 64

RECURSIVE b64encode(_)
b64encode(bytes) ==
    IF Len(bytes) = 0 THEN <<>>
    ELSE IF Len(bytes) = 1 THEN
        << bytes[1] \div 4, (bytes[1] % 4) * 16, Pad, Pad >>
    ELSE IF Len(bytes) = 2 THEN
        << bytes[1] \div 4, (bytes[1] % 4) * 16 + bytes[2] \div 16,
           (bytes[2] % 16) * 4, Pad >>
    ELSE
        << bytes[1] \div 4, (bytes[1] % 4) * 16 + bytes[2] \div 16,
           (bytes[2] % 16) * 4 + bytes[3] \div 64, bytes[3] % 64 >>
        \o b64encode(SubSeq(bytes, 4, Len(bytes)))

\* base64 text that b64decode accepts: whole quads, padding only at the end
b64valid(text) ==
    /\ Len(text) % 4 = 0
    /\ \A i \in 1..Len(text) :
          /\ text[i] \in 0..Pad
          /\ text[i] = Pad => /\ i > Len(text) - 2
                              /\ \A j \in i..Len(text) : text[j] = Pad

RECURSIVE b64decode(_)
b64decode(text) ==
    IF Len(text) = 0 THEN <<>>
    ELSE
        LET q == SubSeq(text, 1, 4)
            b1 == q[1] * 4 + q[2] \div 16
            b2 == (q[2] % 16) * 16 + q[3] \div 4
            b3 == (q[3] % 4) * 64 + q[4]
        IN  IF q[3] = Pad THEN << b1 >>
            ELSE IF q[4] = Pad THEN << b1, b2 >>
            ELSE << b1, b2, b3 >> \o b64decode(SubSeq(text, 5, Len(text)))

\* pickle protocol 2: PROTO 2, then NONE or BININT1 n, then STOP
pickle_dumps(value) ==
    IF value = PyNone THEN << 128, 2, 78, 46 >>
    ELSE << 128, 2, 75, value, 46 >>

pickle_loadable(bytes) ==
    \/ bytes = << 128, 2, 78, 46 >>
    \/ /\ Len(bytes) = 5
       /\ bytes[1] = 128 /\ bytes[2] = 2 /\ bytes[3] = 75 /\ bytes[5] = 46

pickle_loads(bytes) ==
    IF bytes = << 128, 2, 78, 46 >> THEN PyNone ELSE bytes[4]

\* pickle_dumps_base64 raises on a value pickle refuses
CanPickle(value) == value # Unpicklable
pickle_dumps_base64(value) == b64encode(pickle_dumps(value))

\* pickle_loads_base64 raises on text that is no base64 of a pickle
CanUnpickle(text) == b64valid(text) /\ pickle_loadable(b64decode(text))
pickle_loads_base64(text) == pickle_loads(b64decode(text))

\* key.encode(): the UTF-8 bytes of the key
KeyBytes(key) == IF key = "k1" THEN << 107, 49 >> ELSE << 107, 50 >>

RECURSIVE ByteSum(_)
ByteSum(bytes) ==
    IF Len(bytes) = 0 THEN 0
    ELSE (bytes[1] + 31 * ByteSum(Tail(bytes))) % 256

\* get_base64_digest: base64 of a hash of the key's bytes
get_base64_digest(key) == b64encode(<< ByteSum(KeyBytes(key)) >>)

\* get_stored_meta: provenance of the producer
get_stored_meta == b64encode(<< 49 >>)

(***************************************************************************)
(* Lockers and storage instances.                                          *)
(***************************************************************************)
NoLocker == [type |-> "None", dirname |-> ""]
DefaultNearbyFileLocker == [type |-> "DefaultNearbyFileLocker", dirname |-> ""]
FileLocker(dirname) == [type |-> "FileLocker", dirname |-> dirname]

\* the directories and the bucket the callers configure
DataDir == "/tmp"
LockDir == "/store-locks-here"
Bucket == "my-bucket"

\* `if self.locker:` -- a locker object is truthy, None is not
Truthy(locker) == locker.type # "None"

\* a post-init that also replaces an explicit None by the default locker
attrs_post_init_none_too(self) ==
    IF self.locker.type \in {"DefaultNearbyFileLocker", "None"}
    THEN [self EXCEPT !.locker = FileLocker(self.dirname)]
    ELSE self

\* JSONLocalStorage.__attrs_post_init__
attrs_post_init(self) ==
    IF self.locker.type = "DefaultNearbyFileLocker"
    THEN [self EXCEPT !.locker = FileLocker(self.dirname)]
    ELSE self

\* JSONLocalStorage(dirname, locker=...): the locker defaults to the sentinel;
\* `given` keeps what the caller passed, as history
NewJSONLocalStorage(dirname, locker, id) ==
    attrs_post_init([cls |-> "JSONLocalStorage", dirname |-> dirname,
                     locker |-> locker, id |-> id, given |-> locker])

\* S3Storage(bucket, locker=...): the locker defaults to None
NewS3Storage(bucket, locker, id) ==
    [cls |-> "S3Storage", dirname |-> bucket, locker |-> locker, id |-> id,
     given |-> locker]

\* what a caller may pass as locker: nothing (the class default), None, a locker
LockerArgs(cls) ==
    IF Backend(cls) = "JSONLocalStorage"
    THEN {DefaultNearbyFileLocker, NoLocker, FileLocker(LockDir)}
    ELSE {NoLocker, FileLocker(LockDir)}

Construct(cls, locker, id) ==
    IF Backend(cls) = "JSONLocalStorage"
    THEN [NewJSONLocalStorage(DataDir, locker, id) EXCEPT !.cls = cls]
    ELSE [NewS3Storage(Bucket, locker, id) EXCEPT !.cls = cls]

\* a name made of the class name alone
Base_get_path_by_key_class_only(self, key) ==
    [cls |-> self.cls, digest |-> << >>]

\* a name made of the digest alone
Base_get_path_by_key_digest_only(self, key) ==
    [cls |-> "", digest |-> get_base64_digest(key)]

\* BaseStorage._get_path_by_key: f'{class name}_{digest of the key}'
Base_get_path_by_key(self, key) ==
    [cls |-> self.cls, digest |-> get_base64_digest(key)]

\* a path that depends on the instance, not only on its class and directory
get_path_by_key_per_instance(self, key) ==
    [dir |-> self.dirname,
     name |-> [cls |-> self.cls,
               digest |-> get_base64_digest(key)
                          \o (IF self.id.fresh THEN << 1 >> ELSE << 0 >>)]]

\* JSONLocalStorage._get_path_by_key joins the directory; S3Storage inherits
\* the base name and addresses it inside its bucket
get_path_by_key(self, key) ==
    [dir |-> self.dirname, name |-> Base_get_path_by_key(self, key)]

(***************************************************************************)
(* Envelopes.  A local file is a sequence of equally sized chunks of the   *)
(* JSON document; an object body is the base64 text of the pickle.         *)
(***************************************************************************)
Nul == [i |-> 0, s |-> << >>]

\* the number of writes json.dump makes of one document
DocChunks == 2

\* json.dump(data, file): the document in DocChunks pieces, the key in the
\* first and the value in the second, as in the dict
JsonDocument(key, value) ==
    [i \in 1..DocChunks |->
        [i |-> i,
         s |-> IF i = 1 THEN b64encode(KeyBytes(key))
               ELSE IF i = 2 THEN pickle_dumps_base64(value)
               ELSE get_stored_meta]]

\* json.loads accepts a complete document only
JsonValid(content) ==
    /\ Len(content) = DocChunks
    /\ \A i \in 1..DocChunks : content[i].i = i

\* file.write at the writer's own offset; a write past the end leaves a hole
WriteAt(content, off, chunk) ==
    [i \in 1..(IF Len(content) > off THEN Len(content) ELSE off + 1) |->
        IF i = off + 1 THEN chunk
        ELSE IF i <= Len(content) THEN content[i] ELSE Nul]

\* the result of a call: it returns val, or raises exc
Return(val) == [out |-> "return", val |-> val, exc |-> ""]
Raise(exc) == [out |-> "raise", val |-> PyNone, exc |-> exc]

\* a load that reads the 'key' field of the document instead of 'value'
JSONLocalStorage_load_key_field(exists, content, fault) ==
    IF ~exists THEN Return(PyNone)
    ELSE IF fault # "none" THEN Raise(fault)
    ELSE IF content = << >> THEN Return(PyNone)
    ELSE IF ~JsonValid(content) THEN Raise("JSONDecodeError")
    ELSE IF ~CanUnpickle(content[1].s) THEN Raise("UnpicklingError")
    ELSE Return(pickle_loads_base64(content[1].s))

\* JSONLocalStorage.load on what open/read gave
JSONLocalStorage_load(exists, content, fault) ==
    IF ~exists THEN Return(PyNone)
    ELSE IF fault # "none" THEN Raise(fault)
    ELSE IF content = << >> THEN Return(PyNone)
    ELSE IF ~JsonValid(content) THEN Raise("JSONDecodeError")
    ELSE IF ~CanUnpickle(content[2].s) THEN Raise("UnpicklingError")
    ELSE Return(pickle_loads_base64(content[2].s))

\* the errors a bucket raises, by what _is_not_found_error inspects: the
\* response attribute, its 'Error' entry and the fields of that entry
Shape(response, error, fields, code, message) ==
    [response |-> response, Error |-> error, fields |-> fields,
     Code |-> code, Message |-> message]

ErrorShape(exc) ==
    IF exc = "ClientError404"
    THEN Shape("mapping", TRUE, {"Code", "Message"}, "404", "Not Found")
    ELSE IF exc = "ClientError403"
    THEN Shape("mapping", TRUE, {"Code", "Message"}, "403", "Forbidden")
    ELSE IF exc = "ClientErrorNoSuchKey"
    THEN Shape("mapping", TRUE, {"Code", "Message"}, "NoSuchKey", "Not Found")
    ELSE IF exc = "ClientError404Gone"
    THEN Shape("mapping", TRUE, {"Code", "Message"}, "404", "Gone")
    ELSE IF exc = "ClientError404NoMessage"
    THEN Shape("mapping", TRUE, {"Code"}, "404", "")
    ELSE IF exc = "ClientErrorNoInfo"
    THEN Shape("mapping", FALSE, {}, "", "")
    ELSE Shape("none", FALSE, {}, "", "")

\* what download_fileobj raises other than the not-found of a missing object
TransportErrors ==
    {"ClientError403", "ClientErrorNoSuchKey", "ClientError404Gone",
     "ClientError404NoMessage", "ClientErrorNoInfo", "EndpointConnectionError"}

\* a not-found test that expects the code of get_object, not of head_object
is_not_found_error_no_such_key(exc) ==
    LET e == ErrorShape(exc)
    IN  IF e.response = "mapping" /\ e.Error /\ {"Code", "Message"} \subseteq e.fields
        THEN e.Code = "NoSuchKey"
        ELSE FALSE

\* a not-found test that looks at the code only
is_not_found_error_code_only(exc) ==
    LET e == ErrorShape(exc)
    IN  IF e.response = "mapping" /\ e.Error /\ "Code" \in e.fields
        THEN e.Code = "404"
        ELSE FALSE

\* S3Storage._is_not_found_error
is_not_found_error(exc) ==
    LET e == ErrorShape(exc)
    IN  IF e.response = "mapping" /\ e.Error /\ {"Code", "Message"} \subseteq e.fields
        THEN e.Code = "404" /\ e.Message = "Not Found"
        ELSE FALSE

\* S3Storage.load on what download_fileobj gave: the body, or an error
S3Storage_load(exists, content, fault) ==
    LET exc == IF fault # "none" THEN fault
               ELSE IF ~exists THEN "ClientError404" ELSE "none"
    IN  IF exc # "none"
        THEN IF is_not_found_error(exc) THEN Return(PyNone) ELSE Raise(exc)
        ELSE IF content = << >> THEN Return(PyNone)
        ELSE IF ~CanUnpickle(content) THEN Raise("UnpicklingError")
        ELSE Return(pickle_loads_base64(content))

\* what a reader would call the envelope: absent, valid or corrupt
EnvelopeStatus(cls, exists, content) ==
    IF ~exists THEN "absent"
    ELSE IF cls = "JSONLocalStorage"
    THEN IF content # << >> /\ JsonValid(content) /\ CanUnpickle(content[2].s)
         THEN "valid" ELSE "corrupt"
    ELSE IF content # << >> /\ CanUnpickle(content) THEN "valid" ELSE "corrupt"

(***************************************************************************)
(* State.                                                                  *)
(***************************************************************************)
VARIABLES
    inst,      \* inst[p]: the storage instance caller p holds
    files,     \* the local file system: path -> content (chunks)
    objects,   \* the bucket: path -> [body, metadata]
    held,      \* the lock handles the lockers have granted and not released
    scope,     \* scope[p]: the lock(key) scope caller p is inside
    pc,        \* pc[p]: "idle", or "writing" inside JSONLocalStorage.save
    sv,        \* sv[p]: the save in progress (key, value, offset, unlinked)
    last,      \* history: the last operation that touched each path
    ret        \* history: what the latest step returned, if it ended a call

vars == << inst, files, objects, held, scope, pc, sv, last, ret >>

NoId == [p |-> 0, fresh |-> FALSE]
Discarded == [p |-> 0, fresh |-> TRUE]
NoHandle == [locker |-> NoLocker, key |-> "", owner |-> NoId]
NoScope == [key |-> "", handle |-> NoHandle, loaded |-> "no"]
NoSave == [key |-> "", val |-> NoVal, off |-> 0, orphan |-> FALSE]
Untouched == [op |-> "none", phase |-> "", val |-> NoVal, prior |-> NoVal,
              by |-> NoId, clean |-> TRUE, fault |-> "none"]
NoRet == [op |-> "none", cls |-> "", res |-> Return(PyNone),
          prev |-> Untouched, env |-> "", fault |-> "none", calls |-> << >>,
          locker |-> FALSE]

\* every instance a caller can construct, with the identity id
Instances(id) ==
    UNION {{Construct(c, l, id) : l \in LockerArgs(c)} :
              c \in Classes \cup DerivedClasses}

\* the history is kept by what the caller names: class, directory, key
SlotOf(q, key) == [cls |-> inst[q].cls, dir |-> inst[q].dirname, key |-> key]
LastOf(slot) == IF slot \in DOMAIN last THEN last[slot] ELSE Untouched
Touch(slot, rec) ==
    [x \in DOMAIN last \cup {slot} |-> IF x = slot THEN rec ELSE last[x]]
Exists(store, path) == path \in DOMAIN store

\* a store that creates entries only: an existing entry is kept as it is
Put_keep_existing(store, path, content) ==
    IF path \in DOMAIN store THEN store
    ELSE [x \in DOMAIN store \cup {path} |-> IF x = path THEN content ELSE store[x]]

\* open(path, 'w'), file.write, upload_fileobj: the entry is replaced whole
Put(store, path, content) ==
    [x \in DOMAIN store \cup {path} |-> IF x = path THEN content ELSE store[x]]
Remove(store, path) == [x \in DOMAIN store \ {path} |-> store[x]]

\* the value of the complete envelope an operation finds, if there is one
Prior(l) ==
    IF l.op = "save" /\ l.phase = "done" /\ l.clean THEN l.val ELSE NoVal

PathOf(q, key) == get_path_by_key(inst[q], key)
InSave(q, path) == pc[q] # "idle" /\ PathOf(q, sv[q].key) = path

\* nothing has touched the path since the last step of caller p's open save
Undisturbed(p, slot) ==
    LET l == LastOf(slot)
    IN  l.op = "save" /\ l.phase \in {"open", "write"} /\ l.by = inst[p].id /\ l.clean

\* os.remove leaves the file with its open writers as an unlinked inode
Unlink(path) ==
    [q \in Procs |->
        IF InSave(q, path) THEN [sv[q] EXCEPT !.orphan = TRUE] ELSE sv[q]]

\* a save of caller p on path supersedes what others loaded in their scopes
Supersede(p, path) ==
    [q \in Procs |->
        IF q # p /\ scope[q].loaded = "fresh" /\ PathOf(q, scope[q].key) = path
        THEN [scope[q] EXCEPT !.loaded = "stale"]
        ELSE scope[q]]

\* the load of caller p, inside its scope for the key, is what it works from
Loaded(p, key) ==
    IF scope[p] # NoScope /\ scope[p].key = key
    THEN [scope EXCEPT ![p].loaded = "fresh"]
    ELSE scope

\* the callers in `active` construct any instance; the others stay out
InitFor(active, classes) ==
    /\ inst \in {f \in [Procs -> UNION {Instances([p |-> q, fresh |-> FALSE]) : q \in Procs}] :
                    \A p \in Procs :
                       /\ f[p].id.p = p
                       /\ f[p].cls \in classes
                       /\ p \notin active => f[p] = Construct("S3Storage", NoLocker, f[p].id)}
    /\ files = << >>
    /\ objects = << >>
    /\ held = {}
    /\ scope = [p \in Procs |-> NoScope]
    /\ pc = [p \in Procs |-> "idle"]
    /\ sv = [p \in Procs |-> NoSave]
    /\ last = << >>
    /\ ret = NoRet

(***************************************************************************)
(* BaseExternalLockerStorage.lock and the locker's scope.                  *)
(***************************************************************************)
\* a lock that never asks the locker
lock_without_locker(self, key) == NoHandle

\* a lock without the `if self.locker:` test
lock_unconditional(self, key) ==
    [locker |-> self.locker, key |-> key, owner |-> self.id]

\* the handle lock(key) asks the locker for; NoHandle when it asks for none
lock(self, key) ==
    IF Truthy(self.locker)
    THEN [locker |-> self.locker, key |-> key, owner |-> self.id]
    ELSE NoHandle

\* the locker grants one handle per key at a time
Free(locker, key) == ~ \E h \in held : h.locker = locker /\ h.key = key

\* `with storage.lock(key) as lock:` -- enter the scope
LockEnter(p, key) ==
    /\ pc[p] = "idle"
    /\ scope[p] = NoScope
    /\ LET h == lock(inst[p], key)
       IN  /\ h # NoHandle => Free(h.locker, key)
           /\ held' = IF h # NoHandle THEN held \cup {h} ELSE held
           /\ scope' = [scope EXCEPT ![p] =
                           [key |-> key, handle |-> h, loaded |-> "no"]]
           /\ ret' = [NoRet EXCEPT !.op = "lock", !.cls = inst[p].cls,
                                   !.locker = Truthy(inst[p].locker),
                                   !.calls = IF h # NoHandle
                                             THEN << "locker.__enter__" >>
                                             ELSE << >>]
    /\ UNCHANGED << inst, files, objects, pc, sv, last >>

\* a lock whose generator releases after the yield without `with`: the code
\* after the yield runs only when the region ends normally
lock_exit_on_return_only(self, handle, exc) ==
    IF Truthy(self.locker) /\ exc = "none" THEN {handle} ELSE {}

\* the handles the end of the scope releases: `with self.locker(key)` exits
\* the locker's context however the region ends (exc), when there is a locker
lock_exit(self, handle, exc) ==
    IF Truthy(self.locker) THEN {handle} ELSE {}

\* leave the scope, normally or with the exception the latest call raised
LockExit(p) ==
    /\ pc[p] = "idle"
    /\ scope[p] # NoScope
    /\ \E exc \in {"none"} \cup (IF ret.res.out = "raise" THEN {ret.res.exc} ELSE {}) :
          LET released == lock_exit(inst[p], scope[p].handle, exc)
          IN  /\ held' = held \ released
              /\ ret' = [NoRet EXCEPT !.op = "unlock", !.cls = inst[p].cls,
                                      !.locker = Truthy(inst[p].locker),
                                      !.fault = exc,
                                      !.calls = IF released # {}
                                                THEN << "locker.__exit__" >>
                                                ELSE << >>]
    /\ scope' = [scope EXCEPT ![p] = NoScope]
    /\ UNCHANGED << inst, files, objects, pc, sv, last >>

(***************************************************************************)
(* load.                                                                   *)
(***************************************************************************)
\* the requests one load makes of its medium
LoadCalls(cls) ==
    IF Backend(cls) = "S3Storage" THEN << "download_fileobj" >> ELSE << "open" >>

LoadRet(p, key, store, content, fault, res) ==
    LET self == inst[p]
        path == get_path_by_key(self, key)
        slot == SlotOf(p, key)
    IN  [op |-> "load", cls |-> self.cls, res |-> res,
         prev |-> LastOf(slot),
         env |-> EnvelopeStatus(Backend(self.cls), Exists(store, path), content),
         fault |-> fault, calls |-> LoadCalls(self.cls),
         locker |-> Truthy(self.locker)]

\* a load that opens the file for appending and reading: a missing file is
\* created empty
LocalLoad_creating(p, key) ==
    /\ pc[p] = "idle"
    /\ Backend(inst[p].cls) = "JSONLocalStorage"
    /\ LET path == PathOf(p, key)
           exists == Exists(files, path)
           content == IF exists THEN files[path] ELSE << >>
       IN  /\ \E fault \in (IF exists THEN {"none", "PermissionError"} ELSE {"none"}) :
                 ret' = LoadRet(p, key, files, content, fault,
                                JSONLocalStorage_load(exists, content, fault))
           /\ files' = IF exists THEN files ELSE Put(files, path, << >>)
    /\ scope' = Loaded(p, key)
    /\ UNCHANGED << inst, objects, held, pc, sv, last >>

\* JSONLocalStorage.load: open and read the file in one step
LocalLoad(p, key) ==
    /\ pc[p] = "idle"
    /\ Backend(inst[p].cls) = "JSONLocalStorage"
    /\ LET path == PathOf(p, key)
           slot == SlotOf(p, key)
           exists == Exists(files, path)
           content == IF exists THEN files[path] ELSE << >>
       IN  \E fault \in (IF exists THEN {"none", "PermissionError"} ELSE {"none"}) :
              ret' = LoadRet(p, key, files, content, fault,
                             JSONLocalStorage_load(exists, content, fault))
    /\ scope' = Loaded(p, key)
    /\ UNCHANGED << inst, files, objects, held, pc, sv, last >>

\* a load that ends by releasing the locker's lock of the key
S3Load_releasing(p, key) ==
    /\ pc[p] = "idle"
    /\ Backend(inst[p].cls) = "S3Storage"
    /\ LET path == PathOf(p, key)
           exists == Exists(objects, path)
           content == IF exists THEN objects[path].body ELSE << >>
       IN  \E fault \in {"none"} \cup TransportErrors :
              ret' = LoadRet(p, key, objects, content, fault,
                             S3Storage_load(exists, content, fault))
    /\ held' = held \ {h \in held : h.locker = inst[p].locker /\ h.key = key}
    /\ scope' = Loaded(p, key)
    /\ UNCHANGED << inst, files, objects, pc, sv, last >>

\* S3Storage.load: one download_fileobj
S3Load(p, key) ==
    /\ pc[p] = "idle"
    /\ Backend(inst[p].cls) = "S3Storage"
    /\ LET path == PathOf(p, key)
           slot == SlotOf(p, key)
           exists == Exists(objects, path)
           content == IF exists THEN objects[path].body ELSE << >>
       IN  \E fault \in {"none"} \cup TransportErrors :
              ret' = LoadRet(p, key, objects, content, fault,
                             S3Storage_load(exists, content, fault))
    /\ scope' = Loaded(p, key)
    /\ UNCHANGED << inst, files, objects, held, pc, sv, last >>

(***************************************************************************)
(* save.                                                                   *)
(***************************************************************************)
SaveRec(phase, val, prior, by, clean) ==
    [op |-> "save", phase |-> phase, val |-> val, prior |-> prior,
     by |-> by, clean |-> clean, fault |-> "none"]

SaveRet(p, res) ==
    [op |-> "save", cls |-> inst[p].cls, res |-> res,
     prev |-> Untouched, env |-> "", fault |-> "none", calls |-> << >>,
     locker |-> Truthy(inst[p].locker)]

\* JSONLocalStorage.save, `open(path, 'w')`: creates or truncates the file,
\* or fails and leaves it alone
SaveOpen(p, key, value) ==
    /\ pc[p] = "idle"
    /\ Backend(inst[p].cls) = "JSONLocalStorage"
    /\ LET path == PathOf(p, key)
           slot == SlotOf(p, key)
           prior == Prior(LastOf(slot))
       IN  \/ /\ files' = Put(files, path, << >>)
              /\ pc' = [pc EXCEPT ![p] = "writing"]
              /\ sv' = [sv EXCEPT ![p] = [key |-> key, val |-> value, off |-> 0,
                                          orphan |-> FALSE]]
              /\ last' = Touch(slot, SaveRec("open", value, prior, inst[p].id, TRUE))
              /\ scope' = Supersede(p, path)
              /\ ret' = NoRet
           \/ /\ last' = Touch(slot, SaveRec("failed", NoVal, prior, NoId, TRUE))
              /\ ret' = SaveRet(p, Raise("PermissionError"))
              /\ UNCHANGED << files, pc, sv, scope >>
    /\ UNCHANGED << inst, objects, held >>

\* json.dump writes the next chunk of the document
SaveWrite(p) ==
    /\ pc[p] = "writing"
    /\ CanPickle(sv[p].val)
    /\ sv[p].off < DocChunks
    /\ LET path == PathOf(p, sv[p].key)
           slot == SlotOf(p, sv[p].key)
           chunk == JsonDocument(sv[p].key, sv[p].val)[sv[p].off + 1]
           mine == Undisturbed(p, slot)
       IN  /\ files' = IF sv[p].orphan THEN files
                       ELSE Put(files, path, WriteAt(files[path], sv[p].off, chunk))
           /\ sv' = [sv EXCEPT ![p].off = sv[p].off + 1]
           /\ last' = Touch(slot,
                        SaveRec("write", sv[p].val,
                                IF mine THEN LastOf(slot).prior ELSE NoVal,
                                inst[p].id, mine))
           /\ scope' = Supersede(p, path)
    /\ ret' = NoRet
    /\ UNCHANGED << inst, objects, held, pc >>

\* the `with` block ends: the file is closed and save returns
SaveClose(p) ==
    /\ pc[p] = "writing"
    /\ sv[p].off = DocChunks
    /\ pc' = [pc EXCEPT ![p] = "idle"]
    /\ sv' = [sv EXCEPT ![p] = NoSave]
    /\ LET path == PathOf(p, sv[p].key)
           slot == SlotOf(p, sv[p].key)
       IN  last' = Touch(slot,
                     SaveRec("done", sv[p].val,
                             IF Undisturbed(p, slot) THEN LastOf(slot).prior ELSE NoVal,
                             inst[p].id, Undisturbed(p, slot)))
    /\ ret' = SaveRet(p, Return(PyNone))
    /\ UNCHANGED << inst, files, objects, held, scope >>

\* an exception inside the `with` block: pickle refuses the value before
\* anything is written, or a write fails; the file is closed as it is
SaveRaise(p) ==
    /\ pc[p] = "writing"
    /\ sv[p].off < DocChunks
    /\ \/ /\ ~CanPickle(sv[p].val)
          /\ ret' = SaveRet(p, Raise("PicklingError"))
       \/ /\ CanPickle(sv[p].val)
          /\ ret' = SaveRet(p, Raise("OSError"))
    /\ pc' = [pc EXCEPT ![p] = "idle"]
    /\ sv' = [sv EXCEPT ![p] = NoSave]
    /\ LET path == PathOf(p, sv[p].key)
           slot == SlotOf(p, sv[p].key)
       IN  last' = Touch(slot,
                     SaveRec("failed", NoVal,
                             IF Undisturbed(p, slot) THEN LastOf(slot).prior ELSE NoVal,
                             NoId, TRUE))
    /\ UNCHANGED << inst, files, objects, held, scope >>

\* S3Storage.save: pickle, then one upload_fileobj (a single atomic put)
S3Save(p, key, value) ==
    /\ pc[p] = "idle"
    /\ Backend(inst[p].cls) = "S3Storage"
    /\ LET path == PathOf(p, key)
           slot == SlotOf(p, key)
           prior == Prior(LastOf(slot))
       IN  \/ /\ CanPickle(value)
              /\ objects' = Put(objects, path,
                                [body |-> pickle_dumps_base64(value),
                                 metadata |-> [key |-> key, meta |-> get_stored_meta]])
              /\ last' = Touch(slot, SaveRec("done", value, prior, inst[p].id, TRUE))
              /\ scope' = Supersede(p, path)
              /\ ret' = SaveRet(p, Return(PyNone))
           \/ /\ \E exc \in (IF CanPickle(value) THEN {"EndpointConnectionError"}
                                                 ELSE {"PicklingError"}) :
                    ret' = SaveRet(p, Raise(exc))
              /\ last' = Touch(slot, SaveRec("failed", NoVal, prior, NoId, TRUE))
              /\ UNCHANGED << objects, scope >>
    /\ UNCHANGED << inst, files, held, pc, sv >>

(***************************************************************************)
(* cleanup.                                                                *)
(***************************************************************************)
\* a cleanup without the `except FileNotFoundError`
JSONLocalStorage_cleanup_no_except(outcome) ==
    IF outcome = "ok"
    THEN [res |-> Return(PyNone), super |-> TRUE]
    ELSE [res |-> Raise(outcome), super |-> FALSE]

\* a cleanup that catches every Exception, as S3Storage.cleanup does
JSONLocalStorage_cleanup_catch_all(outcome) ==
    [res |-> Return(PyNone), super |-> TRUE]

\* JSONLocalStorage.cleanup around os.remove: only FileNotFoundError is
\* caught; super().cleanup runs if nothing propagated
JSONLocalStorage_cleanup(outcome) ==
    IF outcome \in {"ok", "FileNotFoundError"}
    THEN [res |-> Return(PyNone), super |-> TRUE]
    ELSE [res |-> Raise(outcome), super |-> FALSE]

\* S3Storage.cleanup around Object.delete: every Exception is caught
S3Storage_cleanup(outcome) ==
    [res |-> Return(PyNone), super |-> TRUE]

\* BaseExternalLockerStorage.cleanup: the handles locker.cleanup releases
Base_cleanup(self, handle) ==
    IF Truthy(self.locker) THEN {handle} ELSE {}

CleanupRec(phase, outcome) ==
    [op |-> "cleanup", phase |-> phase, val |-> NoVal, prior |-> NoVal,
     by |-> NoId, clean |-> TRUE, fault |-> outcome]

\* a cleanup that releases the lock first and deletes afterwards
CleanupRet_release_first(p, slot, outcome, c) ==
    [op |-> "cleanup", cls |-> inst[p].cls, res |-> c.res,
     prev |-> LastOf(slot), env |-> "", fault |-> outcome,
     calls |-> IF Base_cleanup(inst[p], scope[p].handle) # {}
               THEN << "locker.cleanup", "delete" >> ELSE << "delete" >>,
     locker |-> Truthy(inst[p].locker)]

\* what cleanup did, in the order of its statements: the delete, then
\* super().cleanup if nothing propagated
CleanupRet(p, slot, outcome, c) ==
    [op |-> "cleanup", cls |-> inst[p].cls, res |-> c.res,
     prev |-> LastOf(slot), env |-> "", fault |-> outcome,
     calls |-> IF c.super /\ Base_cleanup(inst[p], scope[p].handle) # {}
               THEN << "delete", "locker.cleanup" >> ELSE << "delete" >>,
     locker |-> Truthy(inst[p].locker)]

\* JSONLocalStorage.cleanup(key, lock), lock being the handle of p's scope
LocalCleanup(p, key) ==
    /\ pc[p] = "idle"
    /\ Backend(inst[p].cls) = "JSONLocalStorage"
    /\ LET path == PathOf(p, key)
           slot == SlotOf(p, key)
           outcomes == IF Exists(files, path) THEN {"ok", "PermissionError"}
                       ELSE {"FileNotFoundError"}
       IN  \E outcome \in outcomes :
              LET c == JSONLocalStorage_cleanup(outcome)
              IN  /\ files' = IF outcome = "ok" THEN Remove(files, path) ELSE files
                  /\ sv' = IF outcome = "ok" THEN Unlink(path) ELSE sv
                  /\ held' = IF c.super
                             THEN held \ Base_cleanup(inst[p], scope[p].handle)
                             ELSE held
                  /\ last' = Touch(slot,
                               CleanupRec(IF c.res.out = "return" THEN "done" ELSE "failed",
                                          outcome))
                  /\ ret' = CleanupRet(p, slot, outcome, c)
    /\ UNCHANGED << inst, objects, scope, pc >>

\* S3Storage.cleanup(key, lock)
S3Cleanup(p, key) ==
    /\ pc[p] = "idle"
    /\ Backend(inst[p].cls) = "S3Storage"
    /\ LET path == PathOf(p, key)
           slot == SlotOf(p, key)
       IN  \E outcome \in {"ok", "EndpointConnectionError"} :
              LET c == S3Storage_cleanup(outcome)
              IN  /\ objects' = IF outcome = "ok" THEN Remove(objects, path) ELSE objects
                  /\ held' = IF c.super
                             THEN held \ Base_cleanup(inst[p], scope[p].handle)
                             ELSE held
                  /\ last' = Touch(slot,
                               CleanupRec(IF c.res.out = "return" THEN "done" ELSE "failed",
                                          outcome))
                  /\ ret' = CleanupRet(p, slot, outcome, c)
    /\ UNCHANGED << inst, files, scope, pc, sv >>

(***************************************************************************)
(* Restart: the caller discards its instance and constructs a fresh one of *)
(* the same class on the same directory or bucket.                         *)
(***************************************************************************)
Restart(p) ==
    /\ pc[p] = "idle"
    /\ scope[p] = NoScope
    /\ \E l \in LockerArgs(inst[p].cls) :
          inst' = [inst EXCEPT ![p] =
                      Construct(inst[p].cls, l, [p |-> p, fresh |-> ~inst[p].id.fresh])]
    /\ last' = [x \in DOMAIN last |->
                   IF last[x].by = inst[p].id
                   THEN [last[x] EXCEPT !.by = Discarded] ELSE last[x]]
    /\ ret' = NoRet
    /\ UNCHANGED << files, objects, held, scope, pc, sv >>

(***************************************************************************)
(* The callers use their storages in any order.                            *)
(***************************************************************************)
Step(p, keys) ==
    \/ \E key \in keys : LockEnter(p, key)
    \/ LockExit(p)
    \/ \E key \in keys : LocalLoad(p, key)
    \/ \E key \in keys : S3Load(p, key)
    \/ \E key \in keys, value \in SaveArgs : SaveOpen(p, key, value)
    \/ SaveWrite(p)
    \/ SaveClose(p)
    \/ SaveRaise(p)
    \/ \E key \in keys, value \in SaveArgs : S3Save(p, key, value)
    \/ \E key \in keys : LocalCleanup(p, key)
    \/ \E key \in keys : S3Cleanup(p, key)
    \/ Restart(p)

\* one pipeline: a single caller
Init == InitFor({1}, Classes)

Next == Step(1, {"k1"})

Spec == Init /\ [][Next]_vars

\* pipelines sharing one directory, without a locking discipline
InitConc == InitFor(Procs, {"JSONLocalStorage"})

NextConc ==
    \E p \in Procs :
        \/ LocalLoad(p, "k1")
        \/ \E value \in SaveArgs : SaveOpen(p, "k1", value)
        \/ SaveWrite(p)
        \/ SaveClose(p)
        \/ SaveRaise(p)
        \/ LocalCleanup(p, "k1")

SpecConc == InitConc /\ [][NextConc]_vars

\* pipelines that share one locker and touch the key only inside lock(key)
InScope(p, key) == scope[p] # NoScope /\ scope[p].key = key

InitLocked ==
    /\ InitFor(Procs, Classes)
    /\ \A p, q \in Procs : inst[p].locker = inst[q].locker /\ Truthy(inst[p].locker)

NextLocked ==
    \E p \in Procs :
        \/ LockEnter(p, "k1")
        \/ LockExit(p)
        \/ InScope(p, "k1") /\ LocalLoad(p, "k1")
        \/ InScope(p, "k1") /\ S3Load(p, "k1")
        \/ InScope(p, "k1") /\ \E value \in SaveArgs : SaveOpen(p, "k1", value)
        \/ SaveWrite(p)
        \/ SaveClose(p)
        \/ SaveRaise(p)
        \/ InScope(p, "k1") /\ \E value \in SaveArgs : S3Save(p, "k1", value)

SpecLocked == InitLocked /\ [][NextLocked]_vars

\* one pipeline at work and a second one of the same configuration that only
\* enters and leaves lock(key)
InitScopes ==
    /\ InitFor({1, 2}, Classes)
    /\ inst[2].cls = inst[1].cls
    /\ inst[2].given = inst[1].given

NextScopes ==
    \/ LockEnter(1, "k1")
    \/ LockExit(1)
    \/ LocalLoad(1, "k1")
    \/ S3Load(1, "k1")
    \/ \E value \in SaveArgs : SaveOpen(1, "k1", value)
    \/ SaveWrite(1)
    \/ SaveClose(1)
    \/ SaveRaise(1)
    \/ \E value \in SaveArgs : S3Save(1, "k1", value)
    \/ LocalCleanup(1, "k1")
    \/ S3Cleanup(1, "k1")
    \/ LockEnter(2, "k1")
    \/ LockExit(2)

SpecScopes == InitScopes /\ [][NextScopes]_vars

\* one pipeline that keeps several keys in its directory or bucket
InitKeys ==
    /\ InitFor({1}, Classes)
    /\ inst[1].locker = NoLocker

NextKeys ==
    \E key \in Keys :
        \/ LocalLoad(1, key)
        \/ S3Load(1, key)
        \/ \E value \in SaveArgs : SaveOpen(1, key, value)
        \/ SaveWrite(1)
        \/ SaveClose(1)
        \/ SaveRaise(1)
        \/ \E value \in SaveArgs : S3Save(1, key, value)
        \/ LocalCleanup(1, key)
        \/ S3Cleanup(1, key)

SpecKeys == InitKeys /\ [][NextKeys]_vars

\* a backend and a class derived from it on one directory, or in one bucket
InitCross ==
    /\ InitFor({1, 2}, Classes \cup DerivedClasses)
    /\ inst[1].cls \in Classes
    /\ inst[2].cls \in DerivedClasses
    /\ Backend(inst[2].cls) = inst[1].cls
    /\ inst[1].locker = NoLocker /\ inst[2].locker = NoLocker

NextCross ==
    \E p \in {1, 2} :
        \/ LocalLoad(p, "k1")
        \/ S3Load(p, "k1")
        \/ \E value \in SaveArgs : SaveOpen(p, "k1", value)
        \/ SaveWrite(p)
        \/ SaveClose(p)
        \/ SaveRaise(p)
        \/ \E value \in SaveArgs : S3Save(p, "k1", value)
        \/ LocalCleanup(p, "k1")
        \/ S3Cleanup(p, "k1")

SpecCross == InitCross /\ [][NextCross]_vars

(***************************************************************************)
(* Properties.                                                             *)
(***************************************************************************)
AfterLoad == ret.op = "load" /\ ret.fault = "none"
AfterSavedIn(l) == l.op = "save" /\ l.phase = "done" /\ l.clean
AfterSaved == ret.prev.op = "save" /\ ret.prev.phase = "done" /\ ret.prev.clean

\* C1: a load that follows a save(K, V) that returned, with no operation on
\* K in between and the medium answering, returns V -- on both backends
C1_RoundTrip ==
    AfterLoad /\ AfterSaved => ret.res = Return(ret.prev.val)

C1_Witness ==
    /\ AfterLoad /\ AfterSaved
    /\ ret.cls = "JSONLocalStorage"
    /\ ret.res = Return(1)

\* C2: a load concurrent with a save(K, Vnew) on the file backend, a complete
\* envelope of Vold being stored when the save began, returns Vold or Vnew
C2_NoTornRead ==
    /\ AfterLoad
    /\ ret.prev.op = "save" /\ ret.prev.phase \in {"open", "write"}
    /\ ret.prev.clean /\ ret.prev.prior # NoVal
    => ret.res \in {Return(ret.prev.prior), Return(ret.prev.val)}

\* C3: a load after a save that raised, itself after a save(K, V1) that
\* returned, returns V1
C3_FailedSaveKeepsPrior ==
    /\ AfterLoad
    /\ ret.prev.op = "save" /\ ret.prev.phase = "failed" /\ ret.prev.prior # NoVal
    => ret.res = Return(ret.prev.prior)

\* C4: a load of an envelope that exists and does not deserialize (an empty
\* file or object included) raises
C4_CorruptNeverAbsent ==
    ret.op = "load" /\ ret.env = "corrupt" => ret.res.out = "raise"

\* C5: a load of a key whose envelope does not exist returns None, the
\* medium answering
C5_AbsentOnFirstUse ==
    AfterLoad /\ ret.env = "absent" => ret.res = Return(PyNone)

C5_Witness ==
    /\ AfterLoad /\ ret.env = "absent"
    /\ ret.cls = "S3Storage"
    /\ ret.prev = Untouched
    /\ ret.res = Return(PyNone)

\* C6: a load on a fresh instance returns the value saved by an instance of
\* the same class and directory (or bucket) that has been discarded
C6_CrashRecovery ==
    AfterLoad /\ AfterSaved /\ ret.prev.by = Discarded
    => ret.res = Return(ret.prev.val)

C6_Witness ==
    /\ AfterLoad /\ AfterSaved /\ ret.prev.by = Discarded
    /\ ret.res = Return(0)
    /\ inst[1].id.fresh

\* C7: callers that share a locker and touch K only inside lock(K) are never
\* inside their scopes together, and no load is superseded by another
\* caller's save while its scope lasts
C7_NoLostUpdate ==
    \A p, q \in Procs :
        /\ scope[p].loaded # "stale"
        /\ p # q /\ scope[p] # NoScope /\ scope[q] # NoScope
           => scope[p].key # scope[q].key

C7_Witness ==
    \E p, q \in Procs :
        /\ p # q
        /\ scope[q].loaded = "fresh"
        /\ LastOf(SlotOf(q, "k1")).op = "save"
        /\ LastOf(SlotOf(q, "k1")).phase = "done"
        /\ LastOf(SlotOf(q, "k1")).by = inst[p].id
        /\ ret.op = "load" /\ ret.res = Return(1)

\* C8: a cleanup whose delete fails, for whatever reason, raises nothing and
\* still calls the cleanup of the configured locker
C8_CleanupSuppressed ==
    ret.op = "cleanup" /\ ret.fault # "ok"
    => /\ ret.res.out = "return"
       /\ ret.locker => ret.calls = << "delete", "locker.cleanup" >>

\* C9: a cleanup that directly follows a cleanup of the same key that
\* returned raises nothing
C9_IdempotentCleanup ==
    /\ ret.op = "cleanup"
    /\ ret.prev.op = "cleanup" /\ ret.prev.phase = "done"
    => ret.res.out = "return"

C9_Witness ==
    /\ ret.op = "cleanup"
    /\ ret.prev.op = "cleanup" /\ ret.prev.phase = "done"
    /\ ret.cls = "JSONLocalStorage"
    /\ ret.fault = "FileNotFoundError"
    /\ ret.res.out = "return"

CleanedUp(l) == l.op = "cleanup" /\ l.phase = "done"
Stored(slot) ==
    \E q \in Procs :
        /\ SlotOf(q, slot.key) = slot
        /\ Exists(files, PathOf(q, slot.key)) \/ Exists(objects, PathOf(q, slot.key))

\* the complete envelope save(key, value) stores: the JSON document in the
\* file, the base64 text as the body of the object
EnvelopeOf(cls, key, value) ==
    IF Backend(cls) = "S3Storage"
    THEN [body |-> pickle_dumps_base64(value),
          metadata |-> [key |-> key, meta |-> get_stored_meta]]
    ELSE JsonDocument(key, value)

\* what is stored for a slot: the entries of its class in its directory or
\* bucket that carry its key, in any part
EnvelopesFor(slot) ==
    {path \in DOMAIN files :
        /\ path.dir = slot.dir /\ path.name.cls = slot.cls
        /\ \E i \in 1..Len(files[path]) :
              files[path][i] = JsonDocument(slot.key, PyNone)[1]}
    \cup {path \in DOMAIN objects :
        /\ path.dir = slot.dir /\ path.name.cls = slot.cls
        /\ objects[path].metadata.key = slot.key}

ReadableOf(path) ==
    IF path \in DOMAIN files THEN files[path] ELSE objects[path]

\* C11: after save(K, V1), ..., save(K, Vn) that returned, with nothing on K
\* after the last, exactly one envelope is stored for K, it is the envelope
\* of Vn and nothing else, and a load returns Vn
C11_FullReplace ==
    /\ \A slot \in DOMAIN last :
          AfterSavedIn(last[slot])
          => /\ Cardinality(EnvelopesFor(slot)) = 1
             /\ \A path \in EnvelopesFor(slot) :
                   ReadableOf(path) = EnvelopeOf(slot.cls, slot.key, last[slot].val)
    /\ AfterLoad /\ AfterSaved => ret.res = Return(ret.prev.val)

C11_Witness ==
    /\ AfterLoad /\ AfterSaved
    /\ ret.cls = "JSONLocalStorage"
    /\ ret.prev.prior = 1 /\ ret.prev.val = 0
    /\ ret.res = Return(0)
    /\ \E slot \in DOMAIN last : Cardinality(EnvelopesFor(slot)) = 1

\* C12: the paths two instances of different classes derive for a key differ,
\* and a load through a class that has stored nothing for the key returns
\* None, whatever instances of other classes saved in the same directory or
\* bucket
C12_CrossBackendIsolation ==
    /\ \A p, q \in Procs, key \in Keys :
          inst[p].cls # inst[q].cls => PathOf(p, key) # PathOf(q, key)
    /\ AfterLoad /\ ret.prev = Untouched => ret.res = Return(PyNone)

C12_Witness ==
    /\ AfterLoad /\ ret.prev = Untouched
    /\ ret.cls \in DerivedClasses
    /\ ret.res = Return(PyNone)
    /\ \E q \in Procs :
          /\ inst[q].cls = "JSONLocalStorage"
          /\ AfterSavedIn(LastOf(SlotOf(q, "k1")))
          /\ Exists(files, PathOf(q, "k1"))
          /\ \E p \in Procs : inst[p].cls = ret.cls /\ inst[p].dirname = inst[q].dirname

\* the error the download of the latest load raised: the injected one, or the
\* bucket's not-found for a missing object
Downloaded ==
    IF ret.fault # "none" THEN ret.fault
    ELSE IF ret.env = "absent" THEN "ClientError404" ELSE "none"

NotFound404(exc) ==
    /\ ErrorShape(exc).response = "mapping"
    /\ ErrorShape(exc).Error
    /\ {"Code", "Message"} \subseteq ErrorShape(exc).fields
    /\ ErrorShape(exc).Code = "404"
    /\ ErrorShape(exc).Message = "Not Found"

\* C13: a load of S3Storage downloads once; if the download raises, the load
\* returns None when the error carries Error.Code '404' and Error.Message
\* 'Not Found' and raises the same error otherwise; a None that is not a
\* stored value comes from that error only
C13_NotFoundMapping ==
    ret.op = "load" /\ Backend(ret.cls) = "S3Storage"
    => /\ ret.calls = << "download_fileobj" >>
       /\ Downloaded # "none"
          => ret.res = IF NotFound404(Downloaded) THEN Return(PyNone)
                       ELSE Raise(Downloaded)
       /\ ret.res = Return(PyNone) /\ ret.env # "valid" => NotFound404(Downloaded)

C13_Witness ==
    /\ ret.op = "load" /\ ret.cls = "S3Storage"
    /\ ret.fault = "ClientError404Gone"
    /\ ret.env = "valid" /\ AfterSaved
    /\ ret.res = Raise("ClientError404Gone")

\* C14: the locker an instance holds is the one resolved at construction --
\* FileLocker(dirname) for a JSONLocalStorage given no locker, otherwise what
\* the caller gave, None included -- after any calls, and lock() hands out
\* handles of that locker
C14_LockerResolvedOnce ==
    \A p \in Procs :
        /\ inst[p].locker =
              IF Backend(inst[p].cls) = "JSONLocalStorage"
                 /\ inst[p].given = DefaultNearbyFileLocker
              THEN FileLocker(inst[p].dirname)
              ELSE inst[p].given
        /\ scope[p] # NoScope /\ inst[p].given # NoLocker
           => scope[p].handle.locker = inst[p].locker

C14_Witness ==
    /\ inst[1].cls = "JSONLocalStorage"
    /\ inst[1].given = DefaultNearbyFileLocker
    /\ inst[1].id.fresh
    /\ scope[1] # NoScope
    /\ scope[1].handle.locker = FileLocker(DataDir)
    /\ scope[1].handle \in held
    /\ ret.op = "save" /\ ret.res.out = "return"

C16_ScopedRelease ==
    /\ \A h \in held : \E p \in Procs : scope[p] # NoScope /\ scope[p].handle = h
    /\ \A p \in Procs :
          scope[p] # NoScope /\ Truthy(inst[p].locker)
          => scope[p].handle = [locker |-> inst[p].locker, key |-> scope[p].key,
                                owner |-> inst[p].id]
    /\ ret.op = "lock" /\ ret.locker
       => /\ ret.calls = << "locker.__enter__" >>
          /\ \E p \in Procs : scope[p] # NoScope /\ scope[p].handle \in held
    /\ ret.op = "unlock" /\ ret.locker => ret.calls = << "locker.__exit__" >>

C16_Witness ==
    /\ ret.op = "unlock" /\ ret.locker
    /\ ret.fault = "PicklingError"
    /\ ret.calls = << "locker.__exit__" >>
    /\ scope[1] = NoScope
    /\ held = {}

\* C17: without a locker, lock(K) yields None and asks no locker, entering
\* and leaving the scope hold and release nothing, and cleanup only deletes
C17_NoLocker ==
    /\ \A p \in Procs :
          ~Truthy(inst[p].locker)
          => /\ scope[p] # NoScope => scope[p].handle = NoHandle
             /\ \A h \in held : h.owner # inst[p].id
    /\ ret.op \in {"lock", "unlock"} /\ ~ret.locker => ret.calls = << >>
    /\ ret.op = "cleanup" /\ ~ret.locker => ret.calls = << "delete" >>

\* two callers without a locker inside lock("k1") together, one cleaning up
C17_Witness ==
    /\ ~Truthy(inst[1].locker) /\ ~Truthy(inst[2].locker)
    /\ scope[1] # NoScope /\ scope[2] # NoScope
    /\ scope[1].key = scope[2].key
    /\ scope[1].handle = NoHandle /\ scope[2].handle = NoHandle
    /\ held = {}
    /\ ret.op = "cleanup" /\ ret.fault = "ok" /\ ret.calls = << "delete" >>

\* a step of a save or of a load: a call returns or raises, a save opens its
\* file or writes
SaveLoadStep ==
    \/ ret'.op \in {"load", "save"}
    \/ pc' # pc
    \/ \E p \in Procs : sv'[p].off # sv[p].off

\* C19: no step of a save or a load changes what the lockers hold or the
\* handle of any caller's scope
C19_SaveLoadLeaveLocks ==
    [][SaveLoadStep
       => /\ held' = held
          /\ \A p \in Procs : /\ scope'[p].handle = scope[p].handle
                               /\ scope'[p].key = scope[p].key]_vars

\* a save and a load went through, outside any scope, while another caller
\* holds the lock of the key
HeldByOther ==
    /\ scope[1] = NoScope
    /\ scope[2] # NoScope /\ scope[2].key = "k1"
    /\ scope[2].handle # NoHandle /\ scope[2].handle \in held
    /\ scope[2].handle.locker = inst[1].locker

C19_Witness ==
    /\ HeldByOther
    /\ AfterLoad /\ AfterSaved /\ ret.res = Return(1)
    /\ ret.prev.by = inst[1].id

\* the step belongs to an operation of caller p on key: a save in progress,
\* or a save or cleanup that starts or ends
OnKey(p, key) ==
    \/ pc[p] = "writing" /\ sv[p].key = key
    \/ LastOf(SlotOf(p, key))' # LastOf(SlotOf(p, key))

\* the step leaves what is stored at the path of key as it was
EnvelopeUnchanged(p, key) ==
    LET path == PathOf(p, key)
    IN  /\ Exists(files', path) = Exists(files, path)
        /\ Exists(files, path) /\ Exists(files', path) => files'[path] = files[path]
        /\ Exists(objects', path) = Exists(objects, path)
        /\ Exists(objects, path) /\ Exists(objects', path)
           => objects'[path] = objects[path]

\* what load(key) would return, the medium answering
LoadOf(p, key) ==
    LET path == PathOf(p, key)
    IN  IF Backend(inst[p].cls) = "JSONLocalStorage"
        THEN JSONLocalStorage_load(Exists(files, path),
                                   IF Exists(files, path) THEN files[path] ELSE << >>,
                                   "none")
        ELSE S3Storage_load(Exists(objects, path),
                            IF Exists(objects, path) THEN objects[path].body ELSE << >>,
                            "none")

\* a key whose last operation is a save that returned loads the saved value,
\* whatever has been done to other keys since
LoadsOwnValue(p, key) ==
    AfterSavedIn(LastOf(SlotOf(p, key)))
    => LoadOf(p, key) = Return(LastOf(SlotOf(p, key)).val)

\* C18: the keys having different digests, a step of a save or a cleanup
\* of one key leaves the envelope of every other key as it was (existence
\* and content), so that a load of the other key returns what it returned
C18_PerKeyIsolation ==
    /\ [][\A key \in Keys : ~OnKey(1, key) => EnvelopeUnchanged(1, key)]_vars
    /\ [](\A key \in Keys : LoadsOwnValue(1, key))

C18_Witness ==
    /\ get_base64_digest("k1") # get_base64_digest("k2")
    /\ ret.op = "cleanup" /\ ret.fault = "ok" /\ AfterSaved
    /\ LastOf(SlotOf(1, "k1")).op = "cleanup"
    /\ AfterSavedIn(LastOf(SlotOf(1, "k2")))
    /\ LastOf(SlotOf(1, "k2")).val = 1
    /\ LoadOf(1, "k2") = Return(1)
    /\ LoadOf(1, "k1") = Return(PyNone)

\* C20: a step in which a load returns or raises leaves every file and every
\* object, of every key, as it was
C20_LoadReadOnly ==
    [][ret'.op = "load" => files' = files /\ objects' = objects]_vars

\* a load of one key raised on a torn envelope while both keys are stored
C20_Witness ==
    /\ ret.op = "load" /\ ret.res = Raise("JSONDecodeError")
    /\ ret.env = "corrupt"
    /\ Exists(files, PathOf(1, "k1")) /\ Exists(files, PathOf(1, "k2"))
    /\ \E key \in Keys : LoadOf(1, key) = Return(1)

\* C10 as stated: after a cleanup that returned, the envelope does not exist
\* and a load returns None
C10_RemovedOnCleanup ==
    /\ \A slot \in DOMAIN last : CleanedUp(last[slot]) => ~Stored(slot)
    /\ AfterLoad /\ CleanedUp(ret.prev) => ret.res = Return(PyNone)

\* C10 amended: the same, for a cleanup of JSONLocalStorage that returned and
\* for a cleanup of S3Storage whose delete did not fail
DeleteDone(cls, l) ==
    CleanedUp(l) /\ (Backend(cls) = "JSONLocalStorage" \/ l.fault = "ok")

C10_RemovedUnlessDeleteFailed ==
    /\ \A slot \in DOMAIN last :
          DeleteDone(slot.cls, last[slot]) => ~Stored(slot)
    /\ AfterLoad /\ DeleteDone(ret.cls, ret.prev) => ret.res = Return(PyNone)

C10_Witness ==
    /\ AfterLoad /\ DeleteDone(ret.cls, ret.prev)
    /\ ret.cls = "S3Storage"
    /\ ret.res = Return(PyNone)

====
